---- MODULE Spec2Model ----
(***************************************************************************)
(* A model of contestparser.py: the lazy tree pipeline TreeParser.         *)
(*                                                                         *)
(* A TreeParser holds one generator chain, last_operation.  Each of        *)
(* expand / map / reduce / aggregate wraps the chain in one more           *)
(* generator; get() and leaves() drive it.  The model keeps one frame per  *)
(* generator and passes control between neighbouring generators exactly    *)
(* as next(), yield, StopIteration and a raised exception do.  One         *)
(* generator runs at a time (ctl), so while a consumer drives the chain    *)
(* exactly one step is enabled, except that the caller of leaves() decides *)
(* when, and whether, to ask for the next value.                           *)
(*                                                                         *)
(* Three specifications: Spec, every chain of up to MaxOps operators over  *)
(* up to MaxRoots inputs; SpecScenario, the chain of __main__ over a text; *)
(* SpecFile, the chains over a parser made by from_file.                   *)
(***************************************************************************)
EXTENDS Integers, Sequences, FiniteSets, TLC

(***************************************************************************)
(* Bounds of the model.                                                    *)
(***************************************************************************)
MaxRoots == 2        \* number of inputs given to TreeParser(*inputs)
MaxOps == 2          \* number of chained operator calls
MaxInt == 2          \* largest integer among the input values

(***************************************************************************)
(* Python values.  Every value is a record of the same shape so that any   *)
(* two values can be compared: None, an int, a list of values, or a str    *)
(* (the sequence of its characters).                                       *)
(***************************************************************************)
None == [k |-> "none", i |-> 0, s |-> <<>>]
I(n) == [k |-> "int", i |-> n, s |-> <<>>]
L(q) == [k |-> "list", i |-> 0, s |-> q]
Str(q) == [k |-> "str", i |-> 0, s |-> q]

\* The outcome of a call of a user function that raised instead of returning.
Raised == [k |-> "raised", i |-> 0, s |-> <<>>]

IsInt(v) == v.k = "int"
IsList(v) == v.k = "list"
IsStr(v) == v.k = "str"

InputVals == {None, I(0), I(MaxInt)}

RECURSIVE SumInts(_)
SumInts(q) == IF q = <<>> THEN 0 ELSE Head(q).i + SumInts(Tail(q))

(***************************************************************************)
(* The user functions handed to the operators.                             *)
(*   expand:    range  = lambda v: range(v)        twice = lambda v: (v, v)*)
(*   map:       id     = lambda v: v               inc   = lambda v: v + 1 *)
(*   reduce:    list   = list                      sum   = sum             *)
(*   aggregate: pair   = lambda a, b: [a, b]                               *)
(*              append = lambda a, b: a.append(b)                          *)
(*   init_factory: counter = itertools.count(1).__next__                   *)
(* and, for texts:                                                         *)
(*   expand:    split_newline = lambda value: value.split('\n')  (split)   *)
(*              split_space   = lambda value: value.split(' ')   (split)   *)
(*   aggregate: join_underscore = lambda a, b: a + '_' + b                 *)
(*              join_arrow      = lambda a, b: a + ' -> ' + b              *)
(* A function applied outside its domain raises.  list.append returns      *)
(* None; the list it changes is dropped by the caller at once, so the      *)
(* change is not modelled.                                                 *)
(***************************************************************************)
ExpandFuncs == {"range", "twice"}
MapFuncs == {"id", "inc"}
ReduceFuncs == {"list", "sum"}
AggFuncs == {"pair", "append"}
Inits == {None, L(<<>>)}
Factories == {"none", "counter"}

SplitFuncs == {"split_newline", "split_space"}
JoinFuncs == {"join_underscore", "join_arrow"}

Separator(f) == IF f = "split_newline" THEN "\n" ELSE " "
Glue(f) == IF f = "join_underscore" THEN <<"_">> ELSE <<" ", "-", ">", " ">>

\* the fields of the characters q between the occurrences of sep: one more
\* field than occurrences, empty fields included
RECURSIVE Fields(_, _)
Fields(q, sep) ==
    IF q = <<>> THEN <<(<<>>)>>
    ELSE LET rest == Fields(Tail(q), sep) IN
         IF Head(q) = sep THEN <<(<<>>)>> \o rest
         ELSE <<(<<Head(q)>> \o rest[1])>> \o Tail(rest)

\* (mutant) an empty last field is dropped, as str.splitlines() does
StrSplitLines(q, sep) ==
    LET all == Fields(q, sep) IN
    IF all[Len(all)] = <<>> THEN SubSeq(all, 1, Len(all) - 1) ELSE all

\* str.split(sep) for a separator of one character
StrSplit(q, sep) == Fields(q, sep)

ApplyExpand(f, v) ==
    IF f = "range"
    THEN IF IsInt(v) THEN L([j \in 1..v.i |-> I(j - 1)]) ELSE Raised
    ELSE IF f = "twice" THEN L(<<v, v>>)
    ELSE IF IsStr(v)
         THEN LET fields == StrSplit(v.s, Separator(f))
              IN L([j \in 1..Len(fields) |-> Str(fields[j])])
         ELSE Raised

ApplyMap(f, v) ==
    IF f = "id" THEN v
    ELSE IF IsInt(v) THEN I(v.i + 1) ELSE Raised

ApplyReduce(f, c) ==
    IF ~IsList(c) THEN Raised
    ELSE IF f = "list" THEN L(c.s)
    ELSE IF \A j \in 1..Len(c.s) : IsInt(c.s[j]) THEN I(SumInts(c.s)) ELSE Raised

ApplyAgg(f, a, b) ==
    IF f = "pair" THEN L(<<a, b>>)
    ELSE IF f = "append" THEN (IF IsList(a) THEN None ELSE Raised)
    ELSE IF IsStr(a) /\ IsStr(b) THEN Str(a.s \o Glue(f) \o b.s)
    ELSE Raised

\* the exception a call of func f raises outside its domain
FuncError(f) ==
    IF f \in {"append"} \cup SplitFuncs THEN "AttributeError" ELSE "TypeError"

\* the value of the call of factory g that follows n earlier calls
ApplyFactory(g, n) == I(n + 1)

(***************************************************************************)
(* State.                                                                  *)
(***************************************************************************)
VARIABLES
    inputs,     \* the values given to TreeParser(*inputs)
    ops,        \* the chained operators, innermost first
    frames,     \* frames[i]: the local state of the generator of ops[i]
    src,        \* the generator over the inputs: the roots it has yielded, its state
    heap,       \* every Node created so far; a node's identity is its index
    ctl,        \* the generator that is running: 0 the roots, Len(ops)+1 the consumer
    msg,        \* what was handed to it: a next() call, a yielded node, StopIteration
    phase,      \* "build", "run", "done" or "failed" ("new" before from_file)
    consumer,   \* the terminal consumer driving the chain: "none", "get", "leaves",
                \* or "again" for a leaves() called after an earlier leaves()
    received,   \* the nodes this terminal consumer has got so far
    outcome,    \* what the terminal consumer returned or raised
    funcCalls,  \* funcCalls[i]: how often ops[i] has called its func
    facCalls,   \* facCalls[i]: how often ops[i] has called its init_factory
    file,       \* the file given to from_file: its lines, how many were read
    asked       \* how often the terminal consumer has called next() on the chain

vars == <<inputs, ops, frames, src, heap, ctl, msg, phase, consumer, received,
          outcome, funcCalls, facCalls, file, asked>>

N == Len(ops)

\* class Node: value and parent; parent 0 is None.  stage is the generator
\* that created the node (0 for the roots).
Node(value, parent, stage) == [value |-> value, parent |-> parent, stage |-> stage]

NewFrame == [pc |-> "start", leaf |-> 0, pending |-> <<>>, cur_parent |-> 0, acc |-> None]

CallMsg == [t |-> "call", node |-> 0]
StopMsg == [t |-> "stop", node |-> 0]
IdleMsg == [t |-> "idle", node |-> 0]
YieldMsg(n) == [t |-> "yield", node |-> n]

NoOutcome == [t |-> "none", v |-> None, err |-> ""]

\* a parser made by TreeParser(*inputs) has no file
NoFile == [lines |-> <<>>, pos |-> 0]

RECURSIVE SeqsUpTo(_, _)
SeqsUpTo(S, n) ==
    IF n = 0 THEN {<<>>}
    ELSE LET shorter == SeqsUpTo(S, n - 1)
         IN shorter \cup {Append(q, x) : q \in {r \in shorter : Len(r) = n - 1}, x \in S}

Init ==
    /\ inputs \in SeqsUpTo(InputVals, MaxRoots)
    /\ ops = <<>>
    /\ frames = <<>>
    /\ src = [n |-> 0, pc |-> "start"]
    /\ heap = <<>>
    /\ ctl = 0
    /\ msg = IdleMsg
    /\ phase = "build"
    /\ consumer = "none"
    /\ received = <<>>
    /\ outcome = NoOutcome
    /\ funcCalls = <<>>
    /\ facCalls = <<>>
    /\ file = NoFile
    /\ asked = 0

(***************************************************************************)
(* Building the chain.  No generator runs: each call only wraps            *)
(* last_operation.                                                         *)
(***************************************************************************)
\* the depth of the tree after the operators q: every expand adds a level,
\* every reduce or aggregate removes one
Depth(q) ==
    Cardinality({j \in 1..Len(q) : q[j].kind = "expand"})
    - Cardinality({j \in 1..Len(q) : q[j].kind \in {"reduce", "aggregate"}})

\* an operator call wraps last_operation in one more generator
Wrap(op) ==
    /\ ops' = Append(ops, op)
    /\ frames' = Append(frames, NewFrame)
    /\ funcCalls' = Append(funcCalls, 0)
    /\ facCalls' = Append(facCalls, 0)
    /\ UNCHANGED <<inputs, file, asked, src, heap, ctl, msg, phase, consumer,
                   received, outcome>>

\* A chain is not extended past a reduce or aggregate of a sequence of depth
\* zero: that operator raises at its first step whatever follows it.
Chain(op) ==
    /\ phase = "build"
    /\ N < MaxOps
    /\ Depth(ops) >= 0
    /\ Wrap(op)

Op(kind, func, init, fac) == [kind |-> kind, func |-> func, init |-> init, fac |-> fac]

Expand == \E f \in ExpandFuncs : Chain(Op("expand", f, None, "none"))

Map == \E f \in MapFuncs : Chain(Op("map", f, None, "none"))

Reduce == \E f \in ReduceFuncs : Chain(Op("reduce", f, None, "none"))

Aggregate ==
    \E f \in AggFuncs, init \in Inits, fac \in Factories :
        Chain(Op("aggregate", f, init, fac))

(***************************************************************************)
(* Passing control along the chain.                                        *)
(***************************************************************************)
\* generator i asks its upstream for the next node
Pull(i) == ctl' = i - 1 /\ msg' = CallMsg

\* generator i yields a new node to its downstream
Emit(i, value, parent) ==
    /\ heap' = Append(heap, Node(value, parent, i))
    /\ ctl' = i + 1
    /\ msg' = YieldMsg(Len(heap) + 1)

\* generator i ends: StopIteration reaches its downstream
Finish(i) == ctl' = i + 1 /\ msg' = StopMsg

\* (mutant) the exception is caught on its way and another one is raised
RaiseWrapped(i, err) ==
    /\ frames' = [j \in 1..N |-> IF j >= i THEN [frames[j] EXCEPT !.pc = "dead"]
                                 ELSE frames[j]]
    /\ ctl' = N + 1
    /\ msg' = IdleMsg
    /\ phase' = "failed"
    /\ outcome' = [t |-> "raise", v |-> None, err |-> "Exception"]

\* an exception raised in generator i unwinds every generator downstream of
\* it and reaches the caller of the terminal consumer
Raise(i, err) ==
    /\ frames' = [j \in 1..N |-> IF j >= i THEN [frames[j] EXCEPT !.pc = "dead"]
                                 ELSE frames[j]]
    /\ ctl' = N + 1
    /\ msg' = IdleMsg
    /\ phase' = "failed"
    /\ outcome' = [t |-> "raise", v |-> None, err |-> err]

SetFrame(i, fr) == frames' = [frames EXCEPT ![i] = fr]

\* generator i has neither returned nor raised
Alive(i) == frames[i].pc \notin {"done", "dead"}

\* (mutant) a generator that has ended starts over with its first node
NextOfFinishedAgain(i) ==
    LET nodes == SelectSeq([n \in 1..Len(heap) |-> n], LAMBDA n : heap[n].stage = i)
    IN IF nodes = <<>> THEN StopMsg ELSE YieldMsg(nodes[1])

\* what next() gets from generator i once it has returned or raised:
\* StopIteration, every time
NextOfFinished(i) == StopMsg

Exhausted(i) ==
    /\ phase = "run" /\ ctl = i /\ msg.t = "call"
    /\ ~Alive(i)
    /\ ctl' = i + 1
    /\ msg' = NextOfFinished(i)
    /\ UNCHANGED <<inputs, file, asked, ops, frames, src, heap, phase, consumer,
                   received, outcome, funcCalls, facCalls>>

Called(i) == funcCalls' = [funcCalls EXCEPT ![i] = @ + 1]

(***************************************************************************)
(* TreeParser.__init__: (Node(inp) for inp in inputs)                      *)
(***************************************************************************)
RootsStep ==
    /\ phase = "run" /\ ctl = 0 /\ msg.t = "call"
    /\ IF src.n < Len(inputs)
       THEN /\ src' = [n |-> src.n + 1, pc |-> "wait"]
            /\ Emit(0, inputs[src.n + 1], 0)
       ELSE /\ src' = [src EXCEPT !.pc = "done"]
            /\ Finish(0)
            /\ UNCHANGED heap
    /\ UNCHANGED <<inputs, file, asked, ops, frames, phase, consumer, received, outcome,
                   funcCalls, facCalls>>

(***************************************************************************)
(* _expand_op                                                              *)
(***************************************************************************)
\* (mutant) the children are hung below the leaf's parent, beside the leaf
ExpandParentUp(leaf) == heap[leaf].parent

\* (mutant) the children are made without a parent
ExpandParentNone(leaf) == 0

\* the parent given to the children of leaf
ExpandParent(leaf) == leaf

\* resumed by next(): the next child of the current leaf, or the next leaf
ExpandResume(i) ==
    /\ phase = "run" /\ ctl = i /\ msg.t = "call"
    /\ ops[i].kind = "expand"
    /\ Alive(i)
    /\ LET fr == frames[i] IN
       IF fr.pending # <<>>
       THEN /\ Emit(i, Head(fr.pending), ExpandParent(fr.leaf))
            /\ SetFrame(i, [fr EXCEPT !.pending = Tail(fr.pending)])
       ELSE /\ Pull(i)
            /\ SetFrame(i, [fr EXCEPT !.pc = "wait"])
            /\ UNCHANGED heap
    /\ UNCHANGED <<inputs, file, asked, ops, src, phase, consumer, received, outcome,
                   funcCalls, facCalls>>

\* the upstream yielded a leaf: func(leaf.value) gives its children
ExpandLeaf(i) ==
    /\ phase = "run" /\ ctl = i /\ msg.t = "yield"
    /\ ops[i].kind = "expand"
    /\ LET fr == frames[i]
           leaf == msg.node
           kids == ApplyExpand(ops[i].func, heap[leaf].value)
       IN /\ Called(i)
          /\ IF kids = Raised
             THEN /\ Raise(i, FuncError(ops[i].func))
                  /\ UNCHANGED heap
             ELSE /\ IF kids.s = <<>>
                     THEN /\ Pull(i)
                          /\ SetFrame(i, [fr EXCEPT !.leaf = leaf, !.pending = <<>>])
                          /\ UNCHANGED heap
                     ELSE /\ Emit(i, Head(kids.s), ExpandParent(leaf))
                          /\ SetFrame(i, [fr EXCEPT !.leaf = leaf,
                                                    !.pending = Tail(kids.s)])
                  /\ UNCHANGED <<phase, outcome>>
    /\ UNCHANGED <<inputs, file, asked, ops, src, consumer, received, facCalls>>

\* a generator whose upstream is exhausted leaves its for loop and ends
LoopEnd(i, kind) ==
    /\ phase = "run" /\ ctl = i /\ msg.t = "stop"
    /\ ops[i].kind = kind
    /\ Finish(i)
    /\ SetFrame(i, [frames[i] EXCEPT !.pc = "done"])
    /\ UNCHANGED <<inputs, file, asked, ops, src, heap, phase, consumer, received, outcome,
                   funcCalls, facCalls>>

ExpandEnd(i) == LoopEnd(i, "expand")

(***************************************************************************)
(* _map_op                                                                 *)
(***************************************************************************)
\* (mutant) the new node is hung below the leaf it replaces
MapParentLeaf(leaf) == leaf

\* the parent of the node that replaces leaf
MapParent(leaf) == heap[leaf].parent

MapResume(i) ==
    /\ phase = "run" /\ ctl = i /\ msg.t = "call"
    /\ ops[i].kind = "map"
    /\ Alive(i)
    /\ Pull(i)
    /\ SetFrame(i, [frames[i] EXCEPT !.pc = "wait"])
    /\ UNCHANGED <<inputs, file, asked, ops, src, heap, phase, consumer, received, outcome,
                   funcCalls, facCalls>>

MapLeaf(i) ==
    /\ phase = "run" /\ ctl = i /\ msg.t = "yield"
    /\ ops[i].kind = "map"
    /\ LET leaf == msg.node
           v == ApplyMap(ops[i].func, heap[leaf].value)
       IN /\ Called(i)
          /\ IF v = Raised
             THEN /\ Raise(i, FuncError(ops[i].func))
                  /\ UNCHANGED heap
             ELSE /\ Emit(i, v, MapParent(leaf))
                  /\ UNCHANGED <<frames, phase, outcome>>
    /\ UNCHANGED <<inputs, file, asked, ops, src, consumer, received, facCalls>>

MapEnd(i) == LoopEnd(i, "map")

(***************************************************************************)
(* _reduce_op                                                              *)
(***************************************************************************)
\* (mutant) the new node is hung below the group's own parent
GroupParentSame(cur_parent) == cur_parent

\* the parent of the node that replaces the group below cur_parent
GroupParent(cur_parent) == heap[cur_parent].parent

\* (mutant) parents are compared by their values
NewGroupByValue(leaf, cur_parent) ==
    IF heap[leaf].parent = 0 \/ cur_parent = 0 THEN heap[leaf].parent # cur_parent
    ELSE heap[heap[leaf].parent].value # heap[cur_parent].value

\* line 48: does leaf open a new group?
NewGroup(leaf, cur_parent) == heap[leaf].parent # cur_parent

\* collected.append(leaf.value); collected is None before the first group
Collect(collected, leaf) ==
    IF IsList(collected) THEN L(Append(collected.s, heap[leaf].value)) ELSE Raised

\* (mutant) the list is made once and never emptied
KeptCollected(collected) == IF IsList(collected) THEN collected ELSE L(<<>>)

\* line 52: collected = [], a new list for every group
NewCollected(collected) == L(<<>>)

\* resumed by next(): after the yield of line 50 the leaf that closed the
\* group opens the next one; after the yield of line 56 the generator ends
ReduceResume(i) ==
    /\ phase = "run" /\ ctl = i /\ msg.t = "call"
    /\ ops[i].kind = "reduce"
    /\ Alive(i)
    /\ LET fr == frames[i] IN
       IF fr.pc = "last"
       THEN /\ Finish(i)
            /\ SetFrame(i, [fr EXCEPT !.pc = "done"])
       ELSE /\ Pull(i)
            /\ SetFrame(i, IF fr.pc = "mid"
                           THEN [fr EXCEPT !.pc = "wait",
                                           !.cur_parent = heap[fr.leaf].parent,
                                           !.acc = Collect(NewCollected(fr.acc), fr.leaf)]
                           ELSE [fr EXCEPT !.pc = "wait"])
    /\ UNCHANGED <<inputs, file, asked, ops, src, heap, phase, consumer, received, outcome,
                   funcCalls, facCalls>>

\* the upstream yielded a leaf (lines 47-54)
ReduceLeaf(i) ==
    /\ phase = "run" /\ ctl = i /\ msg.t = "yield"
    /\ ops[i].kind = "reduce"
    /\ LET fr == frames[i]
           leaf == msg.node
       IN IF NewGroup(leaf, fr.cur_parent)
          THEN IF fr.cur_parent # 0
               THEN LET v == ApplyReduce(ops[i].func, fr.acc) IN
                    /\ Called(i)
                    /\ IF v = Raised
                       THEN /\ Raise(i, FuncError(ops[i].func))
                            /\ UNCHANGED heap
                       ELSE /\ Emit(i, v, GroupParent(fr.cur_parent))
                            /\ SetFrame(i, [fr EXCEPT !.pc = "mid", !.leaf = leaf])
                            /\ UNCHANGED <<phase, outcome>>
               ELSE /\ Pull(i)
                    /\ SetFrame(i, [fr EXCEPT !.leaf = leaf,
                                              !.cur_parent = heap[leaf].parent,
                                              !.acc = Collect(NewCollected(fr.acc), leaf)])
                    /\ UNCHANGED <<heap, phase, outcome, funcCalls>>
          ELSE IF Collect(fr.acc, leaf) = Raised
               THEN /\ Raise(i, "AttributeError")
                    /\ UNCHANGED <<heap, funcCalls>>
               ELSE /\ Pull(i)
                    /\ SetFrame(i, [fr EXCEPT !.leaf = leaf,
                                              !.acc = Collect(fr.acc, leaf)])
                    /\ UNCHANGED <<heap, phase, outcome, funcCalls>>
    /\ UNCHANGED <<inputs, file, asked, ops, src, consumer, received, facCalls>>

\* what reduce does once its upstream is exhausted (line 56): the group that
\* is still open is emitted
ReduceFlush(i) ==
    LET fr == frames[i]
        v == ApplyReduce(ops[i].func, fr.acc)
    IN /\ Called(i)
       /\ IF v = Raised
          THEN /\ Raise(i, FuncError(ops[i].func))
               /\ UNCHANGED heap
          ELSE IF fr.cur_parent = 0
          THEN /\ Raise(i, "AttributeError")
               /\ UNCHANGED heap
          ELSE /\ Emit(i, v, GroupParent(fr.cur_parent))
               /\ SetFrame(i, [fr EXCEPT !.pc = "last"])
               /\ UNCHANGED <<phase, outcome>>

ReduceEnd(i) ==
    /\ phase = "run" /\ ctl = i /\ msg.t = "stop"
    /\ ops[i].kind = "reduce"
    /\ ReduceFlush(i)
    /\ UNCHANGED <<inputs, file, asked, ops, src, consumer, received, facCalls>>

(***************************************************************************)
(* _aggregate_op                                                           *)
(***************************************************************************)
\* lines 63-64: does the group's first aggregate come from the user's factory?
UsesFactory(op) == op.fac # "none"

\* (mutant) the factory is called once for the whole sequence and its value
\* seeds every group
SeedOnce(op, n) == IF op.fac # "none" THEN ApplyFactory(op.fac, 0) ELSE op.init

\* line 71: cur_aggregate = init_factory(); n calls of the user's factory
\* were made before
Seed(op, n) == IF UsesFactory(op) THEN ApplyFactory(op.fac, n) ELSE op.init

\* lines 73-76: one value folded into the aggregate
Fold(f, cur_aggregate, value) ==
    IF cur_aggregate = None THEN value ELSE ApplyAgg(f, cur_aggregate, value)

\* lines 66-76 over the values q of one group, from the aggregate acc
RECURSIVE FoldGroup(_, _, _)
FoldGroup(f, acc, q) ==
    IF q = <<>> \/ acc = Raised THEN acc
    ELSE FoldGroup(f, Fold(f, acc, Head(q)), Tail(q))

\* did Fold call func?
FoldCalls(cur_aggregate) == IF cur_aggregate = None THEN 0 ELSE 1

\* lines 70-76 for the leaf that opens a group
AggOpen(i, fr, leaf) ==
    LET seed == Seed(ops[i], facCalls[i])
        agg == Fold(ops[i].func, seed, heap[leaf].value)
    IN /\ facCalls' = [facCalls EXCEPT ![i] = @ + (IF UsesFactory(ops[i]) THEN 1 ELSE 0)]
       /\ funcCalls' = [funcCalls EXCEPT ![i] = @ + FoldCalls(seed)]
       /\ IF agg = Raised
          THEN Raise(i, FuncError(ops[i].func))
          ELSE /\ Pull(i)
               /\ SetFrame(i, [fr EXCEPT !.pc = "wait", !.leaf = leaf,
                                         !.cur_parent = heap[leaf].parent,
                                         !.acc = agg])
               /\ UNCHANGED <<phase, outcome>>

AggregateResume(i) ==
    /\ phase = "run" /\ ctl = i /\ msg.t = "call"
    /\ ops[i].kind = "aggregate"
    /\ Alive(i)
    /\ LET fr == frames[i] IN
       IF fr.pc = "last"
       THEN /\ Finish(i)
            /\ SetFrame(i, [fr EXCEPT !.pc = "done"])
            /\ UNCHANGED <<phase, outcome, funcCalls, facCalls>>
       ELSE IF fr.pc = "mid"
       THEN AggOpen(i, fr, fr.leaf)
       ELSE /\ Pull(i)
            /\ SetFrame(i, [fr EXCEPT !.pc = "wait"])
            /\ UNCHANGED <<phase, outcome, funcCalls, facCalls>>
    /\ UNCHANGED <<inputs, file, asked, ops, src, heap, consumer, received>>

\* the upstream yielded a leaf (lines 66-76)
AggregateLeaf(i) ==
    /\ phase = "run" /\ ctl = i /\ msg.t = "yield"
    /\ ops[i].kind = "aggregate"
    /\ LET fr == frames[i]
           leaf == msg.node
       IN IF NewGroup(leaf, fr.cur_parent)
          THEN IF fr.cur_parent # 0
               THEN /\ Emit(i, fr.acc, GroupParent(fr.cur_parent))
                    /\ SetFrame(i, [fr EXCEPT !.pc = "mid", !.leaf = leaf])
                    /\ UNCHANGED <<phase, outcome, funcCalls, facCalls>>
               ELSE /\ AggOpen(i, fr, leaf)
                    /\ UNCHANGED heap
          ELSE LET agg == Fold(ops[i].func, fr.acc, heap[leaf].value) IN
               /\ funcCalls' = [funcCalls EXCEPT ![i] = @ + FoldCalls(fr.acc)]
               /\ IF agg = Raised
                  THEN Raise(i, FuncError(ops[i].func))
                  ELSE /\ Pull(i)
                       /\ SetFrame(i, [fr EXCEPT !.leaf = leaf, !.acc = agg])
                       /\ UNCHANGED <<phase, outcome>>
               /\ UNCHANGED <<heap, facCalls>>
    /\ UNCHANGED <<inputs, file, asked, ops, src, consumer, received>>

\* (mutant) the loop ends and the open group is dropped
AggregateNoFlush(i) ==
    /\ Finish(i)
    /\ SetFrame(i, [frames[i] EXCEPT !.pc = "done"])
    /\ UNCHANGED <<heap, phase, outcome>>

\* (mutant) with no group opened, the aggregate is emitted as a root
AggregateFlushRoot(i) ==
    LET fr == frames[i] IN
    /\ Emit(i, fr.acc, IF fr.cur_parent = 0 THEN 0 ELSE heap[fr.cur_parent].parent)
    /\ SetFrame(i, [fr EXCEPT !.pc = "last"])
    /\ UNCHANGED <<phase, outcome>>

\* what aggregate does once its upstream is exhausted (line 78)
AggregateFlush(i) ==
    LET fr == frames[i] IN
    IF fr.cur_parent = 0
    THEN /\ Raise(i, "AttributeError")
         /\ UNCHANGED heap
    ELSE /\ Emit(i, fr.acc, GroupParent(fr.cur_parent))
         /\ SetFrame(i, [fr EXCEPT !.pc = "last"])
         /\ UNCHANGED <<phase, outcome>>

AggregateEnd(i) ==
    /\ phase = "run" /\ ctl = i /\ msg.t = "stop"
    /\ ops[i].kind = "aggregate"
    /\ AggregateFlush(i)
    /\ UNCHANGED <<inputs, file, asked, ops, src, consumer, received, funcCalls, facCalls>>

(***************************************************************************)
(* The terminal consumers.                                                 *)
(***************************************************************************)
\* get(): list(self.last_operation) starts pulling at once
Get ==
    /\ phase = "build"
    /\ phase' = "run"
    /\ consumer' = "get"
    /\ ctl' = N
    /\ msg' = CallMsg
    /\ asked' = 1
    /\ UNCHANGED <<inputs, file, ops, frames, src, heap, received, outcome, funcCalls,
                   facCalls>>

\* (mutant) no check that the tree is collapsed: the first leaf is returned
GetResultFirst(result) ==
    IF Len(result) = 0 THEN [t |-> "raise", v |-> None, err |-> "IndexError"]
    ELSE [t |-> "return", v |-> heap[result[1]].value, err |-> ""]

\* the value get() returns, or the exception it raises, for the drained list
GetResult(result) ==
    IF Len(result) > 1 THEN [t |-> "raise", v |-> None, err |-> "Exception"]
    ELSE IF Len(result) = 0 THEN [t |-> "raise", v |-> None, err |-> "IndexError"]
    ELSE [t |-> "return", v |-> heap[result[1]].value, err |-> ""]

GetNode ==
    /\ phase = "run" /\ ctl = N + 1 /\ msg.t = "yield"
    /\ consumer = "get"
    /\ received' = Append(received, msg.node)
    /\ ctl' = N
    /\ msg' = CallMsg
    /\ asked' = asked + 1
    /\ UNCHANGED <<inputs, file, ops, frames, src, heap, phase, consumer, outcome,
                   funcCalls, facCalls>>

GetEnd ==
    /\ phase = "run" /\ ctl = N + 1 /\ msg.t = "stop"
    /\ consumer = "get"
    /\ outcome' = GetResult(received)
    /\ phase' = IF GetResult(received).t = "raise" THEN "failed" ELSE "done"
    /\ msg' = IdleMsg
    /\ UNCHANGED <<inputs, file, asked, ops, frames, src, heap, ctl, consumer, received,
                   funcCalls, facCalls>>

\* (mutant) leaves() starts pulling when it is called
LeavesEager ==
    /\ phase = "build"
    /\ phase' = "run"
    /\ consumer' = "leaves"
    /\ ctl' = N
    /\ msg' = CallMsg
    /\ UNCHANGED <<inputs, file, asked, ops, frames, src, heap, received, outcome,
                   funcCalls, facCalls>>

\* leaves(): the caller gets a generator; nothing runs until it asks for a value
Leaves ==
    /\ phase = "build"
    /\ phase' = "run"
    /\ consumer' = "leaves"
    /\ ctl' = N + 1
    /\ msg' = IdleMsg
    /\ UNCHANGED <<inputs, file, asked, ops, frames, src, heap, received, outcome, funcCalls,
                   facCalls>>

\* the caller asks the leaves() generator for the next value
LeavesNext ==
    /\ phase = "run" /\ ctl = N + 1 /\ msg.t = "idle"
    /\ consumer \in {"leaves", "again"}
    /\ ctl' = N
    /\ msg' = CallMsg
    /\ asked' = asked + 1
    /\ UNCHANGED <<inputs, file, ops, frames, src, heap, phase, consumer, received,
                   outcome, funcCalls, facCalls>>

\* leaf.value is handed to the caller
LeavesNode ==
    /\ phase = "run" /\ ctl = N + 1 /\ msg.t = "yield"
    /\ consumer \in {"leaves", "again"}
    /\ received' = Append(received, msg.node)
    /\ msg' = IdleMsg
    /\ UNCHANGED <<inputs, file, asked, ops, frames, src, heap, ctl, phase, consumer, outcome,
                   funcCalls, facCalls>>

\* leaves() is called once more after an earlier traversal has ended or
\* raised: a new generator over the same last_operation
LeavesAgain ==
    /\ phase \in {"done", "failed"}
    /\ consumer = "leaves"
    /\ phase' = "run"
    /\ consumer' = "again"
    /\ received' = <<>>
    /\ asked' = 0
    /\ ctl' = N + 1
    /\ msg' = IdleMsg
    /\ UNCHANGED <<inputs, file, ops, frames, src, heap, outcome, funcCalls, facCalls>>

LeavesEnd ==
    /\ phase = "run" /\ ctl = N + 1 /\ msg.t = "stop"
    /\ consumer \in {"leaves", "again"}
    /\ phase' = "done"
    /\ msg' = IdleMsg
    /\ UNCHANGED <<inputs, file, asked, ops, frames, src, heap, ctl, consumer, received,
                   outcome, funcCalls, facCalls>>

Next ==
    \/ Expand
    \/ Map
    \/ Reduce
    \/ Aggregate
    \/ Get
    \/ Leaves
    \/ LeavesNext
    \/ RootsStep
    \/ \E i \in 1..N : ExpandResume(i)
    \/ \E i \in 1..N : ExpandLeaf(i)
    \/ \E i \in 1..N : ExpandEnd(i)
    \/ \E i \in 1..N : MapResume(i)
    \/ \E i \in 1..N : MapLeaf(i)
    \/ \E i \in 1..N : MapEnd(i)
    \/ \E i \in 1..N : ReduceResume(i)
    \/ \E i \in 1..N : ReduceLeaf(i)
    \/ \E i \in 1..N : ReduceEnd(i)
    \/ \E i \in 1..N : AggregateResume(i)
    \/ \E i \in 1..N : AggregateLeaf(i)
    \/ \E i \in 1..N : AggregateEnd(i)
    \/ GetNode
    \/ GetEnd
    \/ LeavesNode
    \/ LeavesEnd
    \/ LeavesAgain
    \/ \E i \in 1..N : Exhausted(i)

Spec == Init /\ [][Next]_vars

(***************************************************************************)
(* The chain of __main__ over a text:                                      *)
(*   TreeParser(text).split('\n').split(' ')                               *)
(*       .aggregate(join_underscore).aggregate(join_arrow).get()           *)
(* The texts are "a b\nc d\n" and what it starts with.                     *)
(***************************************************************************)
Text == <<"a", " ", "b", "\n", "c", " ", "d", "\n">>

Texts == {SubSeq(Text, 1, n) : n \in 0..Len(Text)}

Pipeline ==
    <<Op("expand", "split_newline", None, "none"),
      Op("expand", "split_space", None, "none"),
      Op("aggregate", "join_underscore", None, "none"),
      Op("aggregate", "join_arrow", None, "none")>>

ScenarioInit ==
    /\ inputs \in {<<Str(t)>> : t \in Texts}
    /\ ops = <<>>
    /\ frames = <<>>
    /\ src = [n |-> 0, pc |-> "start"]
    /\ heap = <<>>
    /\ ctl = 0
    /\ msg = IdleMsg
    /\ phase = "build"
    /\ consumer = "none"
    /\ received = <<>>
    /\ outcome = NoOutcome
    /\ funcCalls = <<>>
    /\ facCalls = <<>>
    /\ file = NoFile
    /\ asked = 0

\* the next call of the chained expression
ScenarioCall(kind) ==
    /\ phase = "build"
    /\ N < Len(Pipeline)
    /\ Pipeline[N + 1].kind = kind
    /\ Wrap(Pipeline[N + 1])

ScenarioSplit == ScenarioCall("expand")

ScenarioAggregate == ScenarioCall("aggregate")

ScenarioGet == N = Len(Pipeline) /\ Get

ScenarioNext ==
    \/ ScenarioSplit
    \/ ScenarioAggregate
    \/ ScenarioGet
    \/ RootsStep
    \/ \E i \in 1..N : ExpandResume(i)
    \/ \E i \in 1..N : ExpandLeaf(i)
    \/ \E i \in 1..N : ExpandEnd(i)
    \/ \E i \in 1..N : AggregateResume(i)
    \/ \E i \in 1..N : AggregateLeaf(i)
    \/ \E i \in 1..N : AggregateEnd(i)
    \/ GetNode
    \/ GetEnd

SpecScenario == ScenarioInit /\ [][ScenarioNext]_vars

(***************************************************************************)
(* The sequences the generators have emitted, read off the heap: a node is *)
(* created in the step that yields it.                                     *)
(***************************************************************************)
Emitted(i) == SelectSeq([n \in 1..Len(heap) |-> n], LAMBDA n : heap[n].stage = i)

Upstream(i) == Emitted(i - 1)

ParentOf(n) == heap[n].parent

Values(run) == [j \in 1..Len(run) |-> heap[run[j]].value]

\* the maximal contiguous runs of nodes with the identical parent
RECURSIVE Runs(_)
Runs(U) ==
    IF U = <<>> THEN <<>>
    ELSE LET rest == Runs(Tail(U)) IN
         IF rest # <<>> /\ ParentOf(Head(rest[1])) = ParentOf(Head(U))
         THEN <<(<<Head(U)>> \o rest[1])>> \o Tail(rest)
         ELSE <<(<<Head(U)>>)>> \o rest

\* same-parent nodes are contiguous: a node below the parent of an earlier
\* node follows a node below that parent
Contiguous(U) ==
    \A a \in 1..Len(U) : \A c \in (a + 2)..Len(U) :
        ParentOf(U[a]) = ParentOf(U[c]) => ParentOf(U[c - 1]) = ParentOf(U[a])

\* every node has a parent: the sequence has depth >= 1
Deep(U) == \A a \in 1..Len(U) : ParentOf(U[a]) # 0

Grouped(U) == Deep(U) /\ Contiguous(U)

Stages(kinds) == {i \in 1..N : ops[i].kind \in kinds}

\* generator i has seen the end of its upstream and has not raised
Flushed(i) == frames[i].pc \in {"last", "done"}

(***************************************************************************)
(* C1.  reduce(func) over a sequence of depth >= 1 with contiguous         *)
(* siblings emits one node per maximal run of nodes with the identical     *)
(* parent, in run order: the j-th node's value is func of the list of the  *)
(* j-th run's values in upstream order and its parent is the parent of the *)
(* run's parent.  While the upstream is not exhausted the run still open   *)
(* has no node; once it is exhausted every run has its node.               *)
(***************************************************************************)
C1_ReduceRuns ==
    \A i \in Stages({"reduce"}) :
        LET U == Upstream(i)
            G == Runs(U)
            E == Emitted(i)
        IN Grouped(U) =>
             /\ Len(E) <= Len(G)
             /\ \A j \in 1..Len(E) :
                  /\ heap[E[j]].value = ApplyReduce(ops[i].func, L(Values(G[j])))
                  /\ ParentOf(E[j]) = ParentOf(ParentOf(G[j][1]))
             /\ Flushed(i) => Len(E) = Len(G)
             /\ (~Flushed(i) /\ U # <<>>) => Len(E) < Len(G)

\* a reduce has ended after emitting several runs, one of them of several
\* values, whose parents are distinct nodes of equal value
C1_Witness ==
    \E i \in Stages({"reduce"}) :
        LET G == Runs(Upstream(i))
            E == Emitted(i)
        IN /\ frames[i].pc = "done"
           /\ Len(E) >= 2
           /\ Len(E) = Len(G)
           /\ \E j \in 1..Len(G) : Len(G[j]) >= 2 /\ Values(G[j])[1] # Values(G[j])[2]
           /\ ParentOf(G[1][1]) # ParentOf(G[2][1])
           /\ heap[ParentOf(G[1][1])].value = heap[ParentOf(G[2][1])].value

(***************************************************************************)
(* C2.  Flush: once reduce or aggregate has seen the end of its upstream   *)
(* (and has not raised), the number of nodes it has emitted is the number  *)
(* of groups of its upstream: the last group's node is out before the      *)
(* operator ends, also when the upstream holds one group only.             *)
(***************************************************************************)
C2_FlushCount ==
    \A i \in Stages({"reduce", "aggregate"}) :
        LET U == Upstream(i)
            G == Runs(U)
            E == Emitted(i)
        IN (Grouped(U) /\ Flushed(i)) =>
             /\ Len(E) = Len(G)
             /\ Len(G) >= 1
             /\ ParentOf(E[Len(E)]) = ParentOf(ParentOf(U[Len(U)]))

\* an aggregate over one group only has emitted that group's node and has
\* not ended yet
C2_Witness ==
    \E i \in Stages({"aggregate"}) :
        /\ frames[i].pc = "last"
        /\ Len(Runs(Upstream(i))) = 1
        /\ Len(Upstream(i)) >= 2
        /\ Len(Emitted(i)) = 1

\* the left fold func(...func(func(acc, q[1]), q[2])..., q[n]); it raises
\* as soon as one call of func raises
RECURSIVE FoldLeft(_, _, _)
FoldLeft(f, acc, q) ==
    IF q = <<>> \/ acc = Raised THEN acc
    ELSE FoldLeft(f, ApplyAgg(f, acc, Head(q)), Tail(q))

\* the aggregate stages with the given way of seeding, over a grouped upstream
AggStages(withInit, withFactory) ==
    {i \in Stages({"aggregate"}) :
        /\ (ops[i].init # None) = withInit
        /\ (ops[i].fac # "none") = withFactory
        /\ Grouped(Upstream(i))}

(***************************************************************************)
(* C3.  aggregate(func, init) with init given and no init_factory: the     *)
(* node of every group holds the left fold of func over the group's values *)
(* started from init.                                                      *)
(***************************************************************************)
C3_FoldFromInit ==
    \A i \in AggStages(TRUE, FALSE) :
        LET G == Runs(Upstream(i))
            E == Emitted(i)
        IN \A j \in 1..Len(E) :
             heap[E[j]].value = FoldLeft(ops[i].func, ops[i].init, Values(G[j]))

(***************************************************************************)
(* C4.  aggregate with both init and init_factory given: every group is    *)
(* seeded with init and init_factory is never called.                      *)
(***************************************************************************)
C4_InitBeforeFactory ==
    \A i \in AggStages(TRUE, TRUE) :
        LET G == Runs(Upstream(i))
            E == Emitted(i)
        IN /\ facCalls[i] = 0
           /\ \A j \in 1..Len(E) :
                heap[E[j]].value = FoldGroup(ops[i].func, ops[i].init, Values(G[j]))

(***************************************************************************)
(* C5.  aggregate(func) with neither init nor init_factory emits, group by *)
(* group, what reduce(g) emits, g being the left fold of func over the     *)
(* group's list started from its first value: the same value and the same  *)
(* parent, for all values and all funcs, None included.                    *)
(***************************************************************************)
C5_AggregateIsReduceOfFold ==
    \A i \in AggStages(FALSE, FALSE) :
        LET G == Runs(Upstream(i))
            E == Emitted(i)
        IN /\ \A j \in 1..Len(E) :
                /\ heap[E[j]].value =
                       FoldLeft(ops[i].func, Head(Values(G[j])), Tail(Values(G[j])))
                /\ ParentOf(E[j]) = ParentOf(ParentOf(G[j][1]))
           /\ Flushed(i) => Len(E) = Len(G)

(***************************************************************************)
(* C6.  aggregate with init absent and init_factory given: the factory is  *)
(* called once per group, when the group is opened and before func sees    *)
(* the group's first value, so the j-th group is folded from the value of  *)
(* the factory's j-th call; it has been called once for every group        *)
(* emitted and once for the group that is open, and G times once the G     *)
(* groups of the upstream are through.                                     *)
(***************************************************************************)
C6_FactoryPerGroup ==
    \A i \in AggStages(FALSE, TRUE) :
        LET G == Runs(Upstream(i))
            E == Emitted(i)
            open == frames[i].pc = "wait" /\ frames[i].cur_parent # 0
        IN /\ \A j \in 1..Len(E) :
                heap[E[j]].value =
                    FoldGroup(ops[i].func, ApplyFactory(ops[i].fac, j - 1), Values(G[j]))
           /\ frames[i].pc # "dead" => facCalls[i] = Len(E) + (IF open THEN 1 ELSE 0)
           /\ facCalls[i] \in {Len(E), Len(E) + 1}
           /\ facCalls[i] <= Len(G)
           /\ Flushed(i) => facCalls[i] = Len(G)
           /\ facCalls[i] = 0 => funcCalls[i] = 0

\* an aggregate seeded by the factory is through an upstream of several
\* groups, one of them of several values
C6_Witness ==
    \E i \in AggStages(FALSE, TRUE) :
        LET G == Runs(Upstream(i)) IN
        /\ frames[i].pc = "done"
        /\ Len(G) >= 2
        /\ facCalls[i] = Len(G)
        /\ \E j \in 1..Len(G) : Len(G[j]) >= 2
        /\ funcCalls[i] = Len(Upstream(i))

\* the whole chain has ended without raising
ChainEnded == IF N = 0 THEN src.pc = "done" ELSE frames[N].pc = "done"

(***************************************************************************)
(* C7.  get() drains the chain: it returns or raises its own exception     *)
(* only after the chain has ended, having received every node the chain    *)
(* emitted.  With two or more nodes it raises the not-collapsed exception  *)
(* and returns no value; with exactly one node it returns that node's      *)
(* value.                                                                  *)
(***************************************************************************)
C7_GetArity ==
    consumer = "get" =>
        LET all == Emitted(N)
            over == phase \in {"done", "failed"} /\ ChainEnded
        IN /\ outcome.t = "return" => over /\ Len(all) = 1
           /\ outcome.err = "Exception" => over /\ Len(all) >= 2
           /\ over => received = all
           /\ (over /\ Len(all) >= 2) =>
                 outcome = [t |-> "raise", v |-> None, err |-> "Exception"]
           /\ (over /\ Len(all) = 1) =>
                 outcome = [t |-> "return", v |-> heap[all[1]].value, err |-> ""]
           /\ phase = "done" => outcome.t = "return"

\* get() has raised the not-collapsed exception at the end of a chain of
\* operators
C7_Witness ==
    /\ consumer = "get"
    /\ N >= 2
    /\ ChainEnded
    /\ Len(received) >= 2
    /\ outcome.err = "Exception"

\* the values and parents of the nodes E
Pairs(E) == [j \in 1..Len(E) |-> [value |-> heap[E[j]].value, parent |-> ParentOf(E[j])]]

\* the children of the nodes U under func f, as values and parents; nothing
\* follows a call of f that raises
RECURSIVE Children(_, _)
Children(f, U) ==
    IF U = <<>> THEN <<>>
    ELSE LET kids == ApplyExpand(f, heap[Head(U)].value) IN
         IF kids = Raised THEN <<>>
         ELSE [j \in 1..Len(kids.s) |-> [value |-> kids.s[j], parent |-> Head(U)]]
              \o Children(f, Tail(U))

(***************************************************************************)
(* C8.  expand(func) emits, for each upstream node n in upstream order,    *)
(* one node per child value of func(n.value), in the order func gives      *)
(* them, each with parent n, and no other node.                            *)
(***************************************************************************)
C8_ExpandChildren ==
    \A i \in Stages({"expand"}) :
        LET X == Children(ops[i].func, Upstream(i))
            P == Pairs(Emitted(i))
        IN /\ Len(P) <= Len(X)
           /\ P = SubSeq(X, 1, Len(P))
           /\ frames[i].pc = "done" => P = X

\* an expand below another operator has ended after emitting the children
\* of several nodes
C8_Witness ==
    \E i \in Stages({"expand"}) :
        LET E == Emitted(i) IN
        /\ i >= 2
        /\ frames[i].pc = "done"
        /\ Len(E) >= 3
        /\ ParentOf(E[1]) # ParentOf(E[Len(E)])
        /\ heap[E[1]].value # heap[E[2]].value

(***************************************************************************)
(* C9.  map(func) is 1:1 and keeps the order: the j-th node it emits has   *)
(* the value func(value of the j-th upstream node) and the identical       *)
(* parent; it is never more than the one node it is working on behind its  *)
(* upstream, and level with it at the end.  With the identity function the *)
(* values are the upstream's.                                              *)
(***************************************************************************)
C9_MapOneToOne ==
    \A i \in Stages({"map"}) :
        LET U == Upstream(i)
            E == Emitted(i)
        IN /\ Len(E) <= Len(U)
           /\ Len(U) <= Len(E) + 1
           /\ \A j \in 1..Len(E) :
                /\ heap[E[j]].value = ApplyMap(ops[i].func, heap[U[j]].value)
                /\ ParentOf(E[j]) = ParentOf(U[j])
                /\ ops[i].func = "id" => heap[E[j]].value = heap[U[j]].value
           /\ frames[i].pc = "done" => Len(E) = Len(U)

\* an identity map below an expand has ended after several nodes
C9_Witness ==
    \E i \in Stages({"map"}) :
        LET E == Emitted(i) IN
        /\ ops[i].func = "id"
        /\ frames[i].pc = "done"
        /\ Len(E) >= 3
        /\ ParentOf(E[1]) # 0
        /\ ParentOf(E[1]) # ParentOf(E[Len(E)])

\* ops[a+1..a+k] are expands and ops[a+k+1..a+2k] are reduces or aggregates
Matched(a, k) ==
    /\ a + 2 * k <= N
    /\ \A j \in (a + 1)..(a + k) : ops[j].kind = "expand"
    /\ \A j \in (a + k + 1)..(a + 2 * k) : ops[j].kind \in {"reduce", "aggregate"}

(***************************************************************************)
(* C10.  Depth invariant: k expands followed by k reduces or aggregates    *)
(* give one node per node of the sequence the expands started from, in     *)
(* the same order and with the same parent, also when a func of an expand  *)
(* returns no children for a node.                                         *)
(***************************************************************************)
C10_DepthInvariant ==
    \A a \in 0..N, k \in 1..N :
        (Matched(a, k) /\ frames[a + 2 * k].pc = "done") =>
            LET S == Emitted(a)
                E == Emitted(a + 2 * k)
            IN /\ Len(E) = Len(S)
               /\ \A j \in 1..Len(E) : ParentOf(E[j]) = ParentOf(S[j])

(***************************************************************************)
(* TreeParser.from_file(file): the parser over the lines of a file.  A     *)
(* line is a str that ends with its newline.                               *)
(***************************************************************************)
FileLines == {Str(<<"a", "\n">>), Str(<<"\n">>)}

FileInit ==
    /\ file \in {[lines |-> q, pos |-> 0] : q \in SeqsUpTo(FileLines, MaxRoots)}
    /\ inputs = <<>>
    /\ ops = <<>>
    /\ frames = <<>>
    /\ src = [n |-> 0, pc |-> "start"]
    /\ heap = <<>>
    /\ ctl = 0
    /\ msg = IdleMsg
    /\ phase = "new"
    /\ consumer = "none"
    /\ received = <<>>
    /\ outcome = NoOutcome
    /\ funcCalls = <<>>
    /\ facCalls = <<>>
    /\ asked = 0

\* lines 171-175: cls(*line_generator()) runs line_generator to its end to
\* build the argument list, so every line is read before __init__ is entered
FromFile ==
    /\ phase = "new"
    /\ file' = [file EXCEPT !.pos = Len(file.lines)]
    /\ inputs' = file.lines
    /\ phase' = "build"
    /\ UNCHANGED <<ops, frames, src, heap, ctl, msg, consumer, received, outcome,
                   funcCalls, facCalls, asked>>

FileNext ==
    \/ FromFile
    \/ Next

SpecFile == FileInit /\ [][FileNext]_vars

(***************************************************************************)
(* C12.  from_file is lazy: once the pipeline is constructed no line has   *)
(* been read; the lines read are never more than one ahead of the root     *)
(* nodes pulled by the downstream; and a file that holds lines is not read *)
(* to its end before a terminal consumer is driven.                        *)
(***************************************************************************)
C12_FromFileLazy ==
    /\ phase = "build" => file.pos = 0
    /\ file.pos <= src.n + 1
    /\ (consumer = "none" /\ file.lines # <<>>) => file.pos < Len(file.lines)

\* the value get() has returned
Returned(v) == [t |-> "return", v |-> v, err |-> ""]

\* get() has returned or raised
GetOver == consumer = "get" /\ phase \in {"done", "failed"}

(***************************************************************************)
(* C11 as stated.  The text "a b\nc d\n" through split on newline, split   *)
(* on space, aggregate joining with '_', aggregate joining with ' -> ' and *)
(* get() returns "a_b -> c_d".                                             *)
(***************************************************************************)
C11_ScenarioAsStated ==
    (GetOver /\ inputs = <<Str(Text)>>) =>
        outcome = Returned(Str(<<"a", "_", "b", " ", "-", ">", " ", "c", "_", "d">>))

(***************************************************************************)
(* C11 as amended.  That pipeline returns "a_b -> c_d -> " for the text    *)
(* "a b\nc d\n": what follows the last newline is a third, empty line.  It *)
(* returns "a_b -> c_d" for the text "a b\nc d", without the last newline. *)
(***************************************************************************)
C11_Scenario ==
    GetOver =>
        /\ inputs = <<Str(Text)>> =>
              outcome = Returned(Str(<<"a", "_", "b", " ", "-", ">", " ", "c", "_", "d",
                                       " ", "-", ">", " ">>))
        /\ inputs = <<Str(SubSeq(Text, 1, Len(Text) - 1))>> =>
              outcome = Returned(Str(<<"a", "_", "b", " ", "-", ">", " ", "c", "_", "d">>))

\* get() has returned for the text "a b\nc d\n", whose lines went through
\* both aggregates
C11_Witness ==
    /\ GetOver
    /\ inputs = <<Str(Text)>>
    /\ outcome.t = "return"
    /\ Len(Emitted(1)) = 3
    /\ Len(Emitted(3)) = 3
    /\ Len(received) = 1

(***************************************************************************)
(* C13.  leaves() hands over one value per node of the last generator, in  *)
(* its order and each node once: what the caller has got is what the       *)
(* chain has emitted, but for a node on its way, and all of it once the    *)
(* traversal has ended.  A traversal started after that gets no value.     *)
(***************************************************************************)
C13_LeavesSinglePass ==
    /\ consumer = "leaves" =>
          LET all == Emitted(N) IN
          /\ Len(received) <= Len(all)
          /\ Len(all) <= Len(received) + 1
          /\ received = SubSeq(all, 1, Len(received))
          /\ (ctl = N + 1 /\ msg.t # "yield") => received = all
          /\ phase = "done" => ChainEnded
    /\ consumer = "again" =>
          /\ received = <<>>
          /\ phase = "done" => asked >= 1

\* after a traversal that got several values to the end of a chain of
\* operators, a second one has asked for a value and ended with none
C13_Witness ==
    /\ consumer = "again"
    /\ phase = "done"
    /\ asked = 1
    /\ N >= 1
    /\ ChainEnded
    /\ Len(Emitted(N)) >= 2
    /\ received = <<>>

\* the generator below generator i has ended
UpstreamEnded(i) == IF i = 1 THEN src.pc = "done" ELSE frames[i - 1].pc = "done"

\* the upstream of generator i has ended without a node
EmptyUpstream(i) == Upstream(i) = <<>> /\ UpstreamEnded(i)

\* the upstream of generator i holds nodes without a parent
FlatUpstream(i) ==
    LET U == Upstream(i) IN U # <<>> /\ \A a \in 1..Len(U) : ParentOf(U[a]) = 0

(***************************************************************************)
(* C14.  A reduce or aggregate whose upstream ends without a node, or      *)
(* hands it nodes without a parent, never emits a node and never ends      *)
(* normally, and get() never returns a value; it has raised once its       *)
(* upstream has ended, and a reduce already at its first node.             *)
(***************************************************************************)
C14_PreconditionError ==
    \A i \in Stages({"reduce", "aggregate"}) :
        (EmptyUpstream(i) \/ FlatUpstream(i)) =>
            /\ Emitted(i) = <<>>
            /\ ~Flushed(i)
            /\ outcome.t # "return"
            /\ consumer = "leaves" => phase # "done"
            /\ ((UpstreamEnded(i) \/ (ops[i].kind = "reduce" /\ FlatUpstream(i))) /\ ctl # i) =>
                  /\ frames[i].pc = "dead"
                  /\ outcome.t = "raise"
                  /\ outcome.err \in {"AttributeError", "TypeError"}

\* an aggregate has folded several roots with its func and raised at the
\* end of its upstream
C14_Witness ==
    \E i \in Stages({"aggregate"}) :
        /\ FlatUpstream(i)
        /\ UpstreamEnded(i)
        /\ Len(Upstream(i)) >= 2
        /\ funcCalls[i] >= 1
        /\ frames[i].pc = "dead"
        /\ outcome.err = "AttributeError"

\* generator j is the one in which an exception was raised
RaisedIn(j) == frames[j].pc = "dead" /\ (j = 1 \/ frames[j - 1].pc # "dead")

\* the exception of generator j came out of a call of its func: an expand
\* or map calls nothing else, a reduce or aggregate over groups neither
FuncRaisedIn(j) ==
    /\ RaisedIn(j)
    /\ ops[j].kind \in {"reduce", "aggregate"} => ~(EmptyUpstream(j) \/ FlatUpstream(j))

\* the call of the func of generator j that was under way when it raised
FailingCall(j) ==
    LET U == Upstream(j)
        G == Runs(U)
        E == Emitted(j)
        f == ops[j].func
    IN IF ops[j].kind = "expand" THEN ApplyExpand(f, heap[U[Len(U)]].value)
       ELSE IF ops[j].kind = "map" THEN ApplyMap(f, heap[U[Len(U)]].value)
       ELSE IF ops[j].kind = "reduce" THEN ApplyReduce(f, L(Values(G[Len(E) + 1])))
       ELSE FoldGroup(f, Seed(ops[j], Len(G) - 1), Values(G[Len(G)]))

(***************************************************************************)
(* C15.  When the func of an operator raises, the consumer gets that       *)
(* exception as func raised it, after exactly the nodes the chain had      *)
(* emitted; the operator and every generator above it are over, the group  *)
(* in progress has no node, and a consumer that asks again gets nothing.   *)
(***************************************************************************)
C15_FuncFailure ==
    \A j \in 1..N :
        FuncRaisedIn(j) =>
            /\ FailingCall(j) = Raised
            /\ outcome = [t |-> "raise", v |-> None, err |-> FuncError(ops[j].func)]
            /\ \A k \in j..N : frames[k].pc = "dead"
            /\ consumer \in {"get", "leaves"} => phase = "failed" /\ received = Emitted(N)
            /\ consumer = "again" => received = <<>>
            /\ ops[j].kind = "map" => Len(Emitted(j)) = Len(Upstream(j)) - 1
            /\ ops[j].kind \in {"reduce", "aggregate"} =>
                  Len(Emitted(j)) < Len(Runs(Upstream(j)))

\* the func of a reduce has raised on a later group, after the caller of
\* leaves() got the node of an earlier one
C15_Witness ==
    \E j \in Stages({"reduce"}) :
        /\ FuncRaisedIn(j)
        /\ j = N
        /\ consumer = "leaves"
        /\ phase = "failed"
        /\ Len(received) >= 1
        /\ outcome.err = "TypeError"

\* generator i has not been started, has called nothing, and no generator
\* below it has yielded a node
Untouched(i) ==
    /\ frames[i] = NewFrame
    /\ funcCalls[i] = 0
    /\ facCalls[i] = 0
    /\ \A k \in 0..(i - 1) : Emitted(k) = <<>>

(***************************************************************************)
(* C16.  Demand-driven evaluation.  While the chain is built, and until    *)
(* the terminal consumer asks for its first node, no generator has         *)
(* started, no func or factory has been called and no node exists.  A      *)
(* generator that was never asked has called nothing and nothing below it  *)
(* has yielded; the last generator has yielded at most one node per        *)
(* request of the consumer.                                                *)
(***************************************************************************)
C16_DemandDriven ==
    consumer \in {"none", "get", "leaves"} =>
        /\ (phase = "build" \/ asked = 0) =>
              /\ heap = <<>>
              /\ src = [n |-> 0, pc |-> "start"]
              /\ \A i \in 1..N : Untouched(i)
        /\ phase = "build" => asked = 0 /\ consumer = "none"
        /\ \A i \in 1..N : frames[i].pc = "start" => Untouched(i)
        /\ Len(Emitted(N)) <= asked
        /\ Len(received) <= asked

\* the caller of leaves() has asked once and holds one value; funcs were
\* called for it, and inputs are left that no generator has looked at
C16_Witness ==
    /\ consumer = "leaves"
    /\ phase = "run"
    /\ ctl = N + 1
    /\ msg.t = "idle"
    /\ asked = 1
    /\ Len(received) = 1
    /\ N >= 2
    /\ \A i \in 1..N : funcCalls[i] >= 1
    /\ src.n < Len(inputs)

\* generator i is suspended at a yield, its node handed to its consumer
Handed(i) == frames[i].pc \in {"mid", "last"}

\* generator i is collecting a group and has dealt with every node its
\* upstream has yielded
Collecting(i) == frames[i].pc = "wait" /\ frames[i].cur_parent # 0 /\ ctl < i

(***************************************************************************)
(* C17.  Bounded window.  When reduce or aggregate has handed the node of  *)
(* group g to its consumer, it has pulled the nodes of the groups up to g  *)
(* and, unless its upstream has ended, one more node, the first of group   *)
(* g+1, which it holds.  What it holds of the values is one list, the      *)
(* values of one group (reduce: of group g until it is resumed, then of    *)
(* the group it is collecting), or one aggregate (aggregate: the value     *)
(* just handed, then the fold of the group it is collecting).              *)
(***************************************************************************)
C17_BoundedWindow ==
    \A i \in Stages({"reduce", "aggregate"}) :
        LET U == Upstream(i)
            G == Runs(U)
            g == Len(Emitted(i))
            fr == frames[i]
        IN Grouped(U) =>
             /\ fr.pc = "mid" =>
                   /\ Len(G) = g + 1
                   /\ G[g + 1] = <<fr.leaf>>
             /\ fr.pc = "last" => Len(G) = g
             /\ Handed(i) =>
                   /\ g >= 1
                   /\ fr.cur_parent = ParentOf(G[g][1])
                   /\ fr.acc = IF ops[i].kind = "reduce" THEN L(Values(G[g]))
                               ELSE heap[Emitted(i)[g]].value
             /\ Collecting(i) =>
                   /\ Len(G) = g + 1
                   /\ fr.cur_parent = ParentOf(G[g + 1][1])
                   /\ fr.acc = IF ops[i].kind = "reduce" THEN L(Values(G[g + 1]))
                               ELSE FoldGroup(ops[i].func, Seed(ops[i], g), Values(G[g + 1]))

\* a reduce has handed the node of its first group, a group of several
\* values, and holds the first node of the second
C17_Witness ==
    \E i \in Stages({"reduce"}) :
        LET G == Runs(Upstream(i)) IN
        /\ frames[i].pc = "mid"
        /\ Len(Emitted(i)) = 1
        /\ Len(G) = 2
        /\ Len(G[1]) >= 2
        /\ frames[i].acc = L(Values(G[1]))
        /\ ctl = i + 1

\* how many of the nodes E were made after node lo and, with hi given
\* (not 0), before node hi: nodes are numbered as they are made
YieldedBetween(E, lo, hi) ==
    Cardinality({k \in 1..Len(E) : (lo < E[k]) /\ (hi = 0 \/ E[k] < hi)})

(***************************************************************************)
(* C18.  reduce and aggregate group by the identity of the parent.         *)
(* Between two consecutive nodes of the upstream a group ends, and its     *)
(* node is yielded before the next upstream node is pulled, exactly when   *)
(* the two parents are different nodes, whatever the values of the parents *)
(* and of the nodes; two consecutive nodes below the same parent are never *)
(* parted.                                                                 *)
(***************************************************************************)
C18_GroupByIdentity ==
    \A i \in Stages({"reduce", "aggregate"}) :
        LET U == Upstream(i)
            E == Emitted(i)
            last == Len(U)
            parted(a) == ParentOf(U[a]) # ParentOf(U[a + 1])
        IN Grouped(U) =>
             /\ \A a \in 1..(last - 2) :
                   YieldedBetween(E, U[a + 1], U[a + 2]) = IF parted(a) THEN 1 ELSE 0
             /\ (last >= 2 /\ (frames[i].pc = "mid" \/ Collecting(i))) =>
                   YieldedBetween(E, U[last], 0) = IF parted(last - 1) THEN 1 ELSE 0
             /\ (last >= 2 /\ Flushed(i)) =>
                   YieldedBetween(E, U[last], 0) = IF parted(last - 1) THEN 2 ELSE 1

\* a reduce has ended after two adjacent runs of equal values whose parents
\* are two nodes of equal value, with one node for each run
C18_Witness ==
    \E i \in Stages({"reduce", "aggregate"}) :
        LET G == Runs(Upstream(i)) IN
        /\ frames[i].pc = "done"
        /\ Len(G) = 2
        /\ Len(G[1]) >= 2
        /\ Values(G[1]) = Values(G[2])
        /\ ParentOf(G[1][1]) # ParentOf(G[2][1])
        /\ heap[ParentOf(G[1][1])].value = heap[ParentOf(G[2][1])].value
        /\ Len(Emitted(i)) = 2

\* the number of ancestors of node n
RECURSIVE NodeDepth(_)
NodeDepth(n) == IF heap[n].parent = 0 THEN 0 ELSE 1 + NodeDepth(heap[n].parent)

(***************************************************************************)
(* C19.  Homogeneity.  At every stage of every chain, the roots included,  *)
(* every node yielded has the depth of the stage, the number of expands    *)
(* less the number of reduces and aggregates up to it, and the nodes with  *)
(* the identical parent are contiguous.                                    *)
(***************************************************************************)
C19_Homogeneous ==
    \A i \in 0..N :
        LET E == Emitted(i)
            depth == Depth(SubSeq(ops, 1, i))
        IN /\ \A j \in 1..Len(E) : NodeDepth(E[j]) = depth
           /\ Contiguous(E)

\* two expands in a row have ended after several nodes of depth two below
\* several parents
C19_Witness ==
    /\ N >= 2
    /\ Depth(ops) = 2
    /\ frames[N].pc = "done"
    /\ Len(Emitted(N)) >= 3
    /\ Len(Runs(Emitted(N))) >= 2
    /\ NodeDepth(Emitted(N)[1]) = 2

====
